---- MODULE Spec2Model ----
(***************************************************************************)
(* Model of scripts/gen_figs_specialization_gain.py: the pipeline          *)
(*   load_metrics -> summarize -> plot_specialization_gain ->              *)
(*   plot_family_delta -> write_callouts_tex -> write_table_tex            *)
(* run once by main().                                                     *)
(*                                                                         *)
(* Strings are sequences of character codes, so that str.lower() and the   *)
(* lexicographic order used by groupby/sort_values are computed and not    *)
(* assumed.  Python values read from JSON are records [t, v] tagged with   *)
(* their Python type.  Accuracies (float means of booleans) are exact      *)
(* rationals [num, den]; "{:.1f}" formatting is rounding to tenths.        *)
(***************************************************************************)
EXTENDS Integers, Sequences, FiniteSets

VARIABLES
    pc,            \* position of main() / load_metrics()
    routing_mode,  \* args.routing_mode
    npaths,        \* len(paths) in load_metrics
    fidx,          \* index of the file being read
    nread,         \* lines read so far
    line,          \* the line last read by "for line in f"
    records,       \* the list `records` of load_metrics
    df,            \* the DataFrame returned by load_metrics
    summary,       \* the DataFrame returned by summarize
    warned,        \* whether summarize printed its "[!] No entries" warning
    acc_matrix,    \* plot_specialization_gain: families and their bar heights
    deltas,        \* plot_family_delta: families and their bar heights
    callouts,      \* lines of specialization_callouts.tex
    table,         \* data rows of specialization_table.tex
    written        \* the artifacts written so far

vars == <<pc, routing_mode, npaths, fidx, nread, line, records, df, summary,
          warned, acc_matrix, deltas, callouts, table, written>>

-----------------------------------------------------------------------------
(* Bounds of the model.                                                    *)
MaxFiles == 2
MaxLines == 2
MaxRecords == 4

-----------------------------------------------------------------------------
(* Strings.                                                                *)
S_empty == << >>
S_s == <<115>>
S_t == <<116>>
S_S == <<83>>
S_psk == <<112, 115, 107>>
S_PSK == <<80, 83, 75>>
S_qam == <<113, 97, 109>>
S_analog == <<97, 110, 97, 108, 111, 103>>
S_fsk == <<102, 115, 107>>
S_generalist == <<103, 101, 110, 101, 114, 97, 108, 105, 115, 116>>
S_Generalist == <<71, 101, 110, 101, 114, 97, 108, 105, 115, 116>>
S_specialist == <<115, 112, 101, 99, 105, 97, 108, 105, 115, 116>>
S_oracle == <<111, 114, 97, 99, 108, 101>>
S_Oracle == <<79, 114, 97, 99, 108, 101>>
S_predicted == <<112, 114, 101, 100, 105, 99, 116, 101, 100>>
S_learned == <<108, 101, 97, 114, 110, 101, 100>>
S_none == <<110, 111, 110, 101>>
S_None == <<78, 111, 110, 101>>
S_True == <<84, 114, 117, 101>>
S_False == <<70, 97, 108, 115, 101>>
S_no == <<110, 111>>

\* str.lower() on ASCII text
Lower(s) == [i \in DOMAIN s |-> IF s[i] \in 65..90 THEN s[i] + 32 ELSE s[i]]

\* Python's < on str: lexicographic by code point
RECURSIVE StrLess(_, _)
StrLess(a, b) ==
    IF b = << >> THEN FALSE
    ELSE IF a = << >> THEN TRUE
    ELSE IF Head(a) # Head(b) THEN Head(a) < Head(b)
    ELSE StrLess(Tail(a), Tail(b))

-----------------------------------------------------------------------------
(* Python values as json.loads produces them.                              *)
PyNone == [t |-> "NoneType", v |-> << >>]
PyBool(b) == [t |-> "bool", v |-> IF b THEN <<1>> ELSE <<0>>]
PyInt(n) == [t |-> "int", v |-> <<n>>]
PyStr(s) == [t |-> "str", v |-> s]
\* a key that the JSON object does not have
Absent == [t |-> "absent", v |-> << >>]

\* dict.get(key): None when the key is absent
Get(d, key) == IF d[key] = Absent THEN PyNone ELSE d[key]

\* truth value of a Python value, as `or` and bool() use it
Truthy(x) ==
    CASE x.t = "NoneType" -> FALSE
      [] x.t = "bool" -> x.v = <<1>>
      [] x.t = "int" -> x.v # <<0>>
      [] x.t = "str" -> x.v # << >>
      [] OTHER -> TRUE

\* a or b
Or(a, b) == IF Truthy(a) THEN a ELSE b

\* str(x)
Str(x) ==
    CASE x.t = "str" -> x.v
      [] x.t = "bool" -> IF x.v = <<1>> THEN S_True ELSE S_False
      [] x.t = "int" -> <<48 + x.v[1]>>
      [] OTHER -> S_None

\* args.study
study == S_s

-----------------------------------------------------------------------------
(* Log lines.  A line is blank, not JSON ("garbage"), JSON that is not an  *)
(* object ("scalar": a number, a string, a list), or a JSON object with a  *)
(* "study" value and a "data" value.  "data" is Absent, a non-dict value,  *)
(* or a dict, given by its seven keys.                                     *)
Keys == {"family", "true_family", "model_role", "role", "routing_mode",
         "routing", "correct"}
PyDict(f) == [t |-> "dict", f |-> f]
EmptyDict == PyDict([k \in Keys |-> Absent])

Blank == [kind |-> "blank", study |-> Absent, data |-> Absent]
Garbage == [kind |-> "garbage", study |-> Absent, data |-> Absent]
Scalar == [kind |-> "scalar", study |-> Absent, data |-> Absent]
Object(st, d) == [kind |-> "object", study |-> st, data |-> d]
NoLine == [kind |-> "noline", study |-> Absent, data |-> Absent]

Fields(fam, tfam, mrole, rl, rmode, rt, cor) ==
    [k \in Keys |->
        CASE k = "family" -> fam
          [] k = "true_family" -> tfam
          [] k = "model_role" -> mrole
          [] k = "role" -> rl
          [] k = "routing_mode" -> rmode
          [] k = "routing" -> rt
          [] OTHER -> cor]

(* load_metrics, lines 84-112: what one line does.                         *)

\* lines 88, 92, 95-99 raise AttributeError when obj or data has no .get
Raises(l) ==
    \/ l.kind = "scalar"
    \/ /\ l.kind = "object"
       /\ Get(l, "study") = PyStr(study)
       /\ l.data # Absent
       /\ l.data.t # "dict"

\* lines 95-99: the four values read from data
DataOf(l) == IF l.data = Absent THEN EmptyDict.f ELSE l.data.f
FamilyOf(l) == Or(Get(DataOf(l), "family"), Get(DataOf(l), "true_family"))
RoleOf(l) == Or(Get(DataOf(l), "model_role"), Get(DataOf(l), "role"))
RoutingOf(l) ==
    Or(Or(Get(DataOf(l), "routing_mode"), Get(DataOf(l), "routing")),
       PyStr(S_none))
CorrectOf(l) == Get(DataOf(l), "correct")

\* lines 85-86, 89-90, 92-93, 101-103: the line adds nothing to records
Skipped(l) ==
    \/ l.kind \in {"blank", "garbage"}
    \/ /\ l.kind = "object"
       /\ \/ Get(l, "study") # PyStr(study)
          \/ /\ ~Raises(l)
             /\ \/ FamilyOf(l) = PyNone
                \/ RoleOf(l) = PyNone
                \/ CorrectOf(l) = PyNone

\* lines 105-112: the record appended
Record(l) ==
    [family |-> Lower(Str(FamilyOf(l))),
     model_role |-> Lower(Str(RoleOf(l))),
     routing_mode |-> Lower(Str(RoutingOf(l))),
     correct |-> Truthy(CorrectOf(l))]

\* the records one line contributes
Normalized(l) == IF Skipped(l) \/ Raises(l) THEN << >> ELSE <<Record(l)>>

-----------------------------------------------------------------------------
(* summarize, lines 124-151.                                               *)

\* lines 127-137: the rows kept by the routing-mode filter
MaskAny(d, rm) == \E i \in DOMAIN d : Lower(d[i].routing_mode) = Lower(rm)
\* a filter that lowercases neither side of the comparison
FilterRoutingCaseSensitive(d, rm) ==
    IF rm # << >> /\ (\E i \in DOMAIN d : d[i].routing_mode = rm)
    THEN SelectSeq(d, LAMBDA o : o.routing_mode = rm)
    ELSE d
FilterRouting(d, rm) ==
    IF rm # << >> /\ MaskAny(d, rm)
    THEN SelectSeq(d, LAMBDA o : Lower(o.routing_mode) = Lower(rm))
    ELSE d
\* lines 133-137: the warning is printed
Warns(d, rm) == rm # << >> /\ ~MaskAny(d, rm)

KeyOf(o) == <<o.family, o.model_role, o.routing_mode>>

\* order of group keys: tuples of str compared left to right
KeyLess(a, b) ==
    \/ StrLess(a[1], b[1])
    \/ a[1] = b[1] /\ StrLess(a[2], b[2])
    \/ a[1] = b[1] /\ a[2] = b[2] /\ StrLess(a[3], b[3])

\* groupby(...) sorts the group keys ascending
RECURSIVE SortKeys(_)
SortKeys(K) ==
    IF K = {} THEN << >>
    ELSE LET m == CHOOSE k \in K : \A j \in K : j = k \/ KeyLess(k, j)
         IN <<m>> \o SortKeys(K \ {m})

\* a size that groups by (family, model_role) and forgets routing_mode
RECURSIVE GroupSizeAnyRouting(_, _)
GroupSizeAnyRouting(d, k) ==
    IF d = << >> THEN 0
    ELSE (IF Head(d).family = k[1] /\ Head(d).model_role = k[2] THEN 1 ELSE 0)
         + GroupSizeAnyRouting(Tail(d), k)

\* ("correct", "size") of one group
RECURSIVE GroupSize(_, _)
GroupSize(d, k) ==
    IF d = << >> THEN 0
    ELSE (IF KeyOf(Head(d)) = k THEN 1 ELSE 0) + GroupSize(Tail(d), k)

\* a numerator that counts the group's rows instead of summing `correct`
RECURSIVE GroupSumAll(_, _)
GroupSumAll(d, k) ==
    IF d = << >> THEN 0
    ELSE (IF KeyOf(Head(d)) = k THEN 1 ELSE 0) + GroupSumAll(Tail(d), k)

\* sum of the booleans of one group, the numerator of ("correct", "mean")
RECURSIVE GroupSum(_, _)
GroupSum(d, k) ==
    IF d = << >> THEN 0
    ELSE (IF KeyOf(Head(d)) = k /\ Head(d).correct THEN 1 ELSE 0)
         + GroupSum(Tail(d), k)

\* lines 140-147: one row per group, accuracy the mean num/den
AggRow(d, k) ==
    [family |-> k[1], model_role |-> k[2], routing_mode |-> k[3],
     n |-> GroupSize(d, k),
     accuracy |-> [num |-> GroupSum(d, k), den |-> GroupSize(d, k)]]
GroupByAgg(d) ==
    LET ks == SortKeys({KeyOf(d[i]) : i \in DOMAIN d})
    IN [i \in DOMAIN ks |-> AggRow(d, ks[i])]

\* line 150: sort_values(["family", "model_role"]), which keeps the order
\* of rows with equal (family, model_role)
RowBefore(a, b) ==
    \/ StrLess(a.family, b.family)
    \/ a.family = b.family /\ StrLess(a.model_role, b.model_role)
RECURSIVE Insert(_, _)
Insert(r, sorted) ==
    IF sorted = << >> THEN <<r>>
    ELSE IF ~RowBefore(Head(sorted), r) THEN <<r>> \o sorted
    ELSE <<Head(sorted)>> \o Insert(r, Tail(sorted))
RECURSIVE SortValues(_)
SortValues(rows) ==
    IF rows = << >> THEN << >>
    ELSE Insert(Head(rows), SortValues(Tail(rows)))

summarize(d, rm) == SortValues(GroupByAgg(FilterRouting(d, rm)))

-----------------------------------------------------------------------------
(* Numbers.  A float is kept as the exact rational [num, den], den > 0;    *)
(* a bar height may be NaN.                                                *)
Rat(a, b) == [nan |-> FALSE, num |-> a, den |-> b]
NaN == [nan |-> TRUE, num |-> 0, den |-> 1]
RatEq(x, y) == x.nan = y.nan /\ x.num * y.den = y.num * x.den

\* float(acc) * 100.0
Pct(acc) == Rat(acc.num * 100, acc.den)
\* (spec_acc - gen_acc) * 100.0
GainOf(spec_acc, gen_acc) ==
    Rat((spec_acc.num * gen_acc.den - gen_acc.num * spec_acc.den) * 100,
        spec_acc.den * gen_acc.den)

\* a formatter that cuts the digits after the first decimal
Fmt1Truncating(x) == (10 * x.num) \div x.den

\* "{:.1f}".format(x): x rounded to the nearest tenth, an exact tie to the
\* even tenth; the result in tenths (33.3 is 333)
\* (a percentage k/n x 100 lies exactly between two tenths only when 16
\* divides n, so within the bounds below no tie is formatted and the float's
\* last-bit error cannot change the digit)
Fmt1(x) ==
    LET q == (10 * x.num) \div x.den
        r == (10 * x.num) % x.den
    IN IF 2 * r < x.den THEN q
       ELSE IF 2 * r > x.den THEN q + 1
       ELSE IF q % 2 = 0 THEN q ELSE q + 1

-----------------------------------------------------------------------------
(* Renderers.                                                              *)

\* .iloc[-1]: the last row of a selection
IlocLast(rows) == rows[Len(rows)]

\* .iloc[0]: the first row of a selection
Iloc0(rows) == rows[1]

\* summary[(family == fam) & (model_role == role)]
RowsOf(s, fam, role) ==
    SelectSeq(s, LAMBDA r : r.family = fam /\ r.model_role = role)

\* sorted(summary["family"].unique())
RECURSIVE SortStrs(_)
SortStrs(F) ==
    IF F = {} THEN << >>
    ELSE LET m == CHOOSE f \in F : \A g \in F : g = f \/ StrLess(f, g)
         IN <<m>> \o SortStrs(F \ {m})
FamiliesOf(s) == SortStrs({s[i].family : i \in DOMAIN s})

\* lines 246-250: one cell of acc_matrix
AccCell(s, fam, role) ==
    IF RowsOf(s, fam, role) = << >> THEN NaN
    ELSE Pct(Iloc0(RowsOf(s, fam, role)).accuracy)

\* lines 239-250: the families and their [generalist, specialist] bars
plot_specialization_gain(s) ==
    LET fams == FamiliesOf(s)
    IN [families |-> fams,
        bars |-> [i \in DOMAIN fams |->
                    [generalist |-> AccCell(s, fams[i], S_generalist),
                     specialist |-> AccCell(s, fams[i], S_specialist)]]]

\* a delta that plots a missing role as a zero bar
DeltaOfZeroWhenMissing(s, fam) ==
    LET gen == RowsOf(s, fam, S_generalist)
        spec == RowsOf(s, fam, S_specialist)
    IN IF gen = << >> \/ spec = << >> THEN Rat(0, 1)
       ELSE GainOf(spec[1].accuracy, gen[1].accuracy)

\* lines 292-300: the delta of one family
DeltaOf(s, fam) ==
    LET gen == RowsOf(s, fam, S_generalist)
        spec == RowsOf(s, fam, S_specialist)
    IN IF gen = << >> \/ spec = << >> THEN NaN
       ELSE GainOf(Iloc0(spec).accuracy, Iloc0(gen).accuracy)

\* lines 288-300
plot_family_delta(s) ==
    LET fams == FamiliesOf(s)
    IN [families |-> fams,
        bars |-> [i \in DOMAIN fams |-> DeltaOf(s, fams[i])]]

\* lines 159-163, in dict order
family_to_macro ==
    << [family |-> S_psk, prefix |-> "PSK"],
       [family |-> S_qam, prefix |-> "QAM"],
       [family |-> S_analog, prefix |-> "Analog"] >>

Macro(prefix, name, value) ==
    [prefix |-> prefix, name |-> name, value |-> value]
Placeholder ==
    Macro("%", "No specialization callouts available; generated empty file.", 0)

\* lines 168-193: the lines one family of the mapping adds
CalloutLines(s, m) ==
    LET gen == RowsOf(s, m.family, S_generalist)
        spec == RowsOf(s, m.family, S_specialist)
    IN IF gen = << >> \/ spec = << >> THEN << >>
       ELSE << Macro(m.prefix, "GeneralistAcc", Fmt1(Pct(Iloc0(gen).accuracy))),
               Macro(m.prefix, "SpecialistAcc", Fmt1(Pct(Iloc0(spec).accuracy))),
               Macro(m.prefix, "Gain",
                     Fmt1(GainOf(Iloc0(spec).accuracy, Iloc0(gen).accuracy))) >>

\* an emitter that writes an empty file when no family qualifies
write_callouts_tex_no_placeholder(s) ==
    CalloutLines(s, family_to_macro[1])
    \o CalloutLines(s, family_to_macro[2])
    \o CalloutLines(s, family_to_macro[3])

\* lines 165-198: the lines of specialization_callouts.tex
write_callouts_tex(s) ==
    LET lines == CalloutLines(s, family_to_macro[1])
                 \o CalloutLines(s, family_to_macro[2])
                 \o CalloutLines(s, family_to_macro[3])
    IN IF lines = << >> THEN <<Placeholder>> ELSE lines

\* lines 216-224: the data rows of specialization_table.tex
write_table_tex(s) ==
    [i \in DOMAIN s |->
        [family |-> s[i].family, role |-> s[i].model_role,
         routing |-> s[i].routing_mode,
         acc |-> Fmt1(Pct(s[i].accuracy)), n |-> s[i].n]]

-----------------------------------------------------------------------------
(* Inputs.                                                                 *)

\* values of --routing-mode: empty, one that matches "oracle" up to case,
\* one that no record carries
RoutingArgs == {S_empty, S_Oracle, S_learned}

Obs(fam, role, routing, correct) ==
    [family |-> fam, model_role |-> role, routing_mode |-> routing,
     correct |-> correct]

\* a complete record of the requested study
GoodLine(fam, role, routing, correct) ==
    Object(PyStr(study),
           PyDict(Fields(fam, Absent, role, Absent, routing, Absent, correct)))

\* the lines a log file of the pipeline may hold
LogLines ==
    { Blank, Garbage, Scalar,
      GoodLine(PyStr(S_PSK), PyStr(S_Generalist), PyStr(S_Oracle), PyBool(TRUE)),
      GoodLine(PyStr(S_psk), PyStr(S_specialist), Absent, PyBool(FALSE)),
      GoodLine(PyStr(S_fsk), PyStr(S_generalist), PyStr(S_oracle), PyInt(1)),
      GoodLine(PyStr(S_psk), PyStr(S_generalist), PyStr(S_oracle), Absent),
      Object(PyStr(S_t),
             PyDict(Fields(PyStr(S_psk), Absent, PyStr(S_generalist), Absent,
                           Absent, Absent, PyBool(TRUE)))),
      Object(PyStr(study), Absent),
      Object(PyStr(study), PyNone) }

\* every shape of line: each key absent, empty or set
AllLines ==
    { Blank, Garbage, Scalar }
    \cup { Object(st, d) : st \in {PyStr(study), PyStr(S_S), Absent},
                           d \in {Absent, PyNone, PyStr(S_psk)} }
    \cup { Object(st, PyDict(Fields(fam, tfam, mrole, rl, rmode, rt, cor))) :
             st \in {PyStr(study), PyStr(S_t)},
             fam \in {Absent, PyStr(S_PSK), PyStr(S_empty), PyBool(TRUE)},
             tfam \in {Absent, PyStr(S_qam), PyStr(S_empty)},
             mrole \in {Absent, PyStr(S_Generalist)},
             rl \in {Absent, PyStr(S_specialist)},
             rmode \in {Absent, PyStr(S_Oracle), PyStr(S_empty)},
             rt \in {Absent, PyStr(S_predicted)},
             cor \in {Absent, PyNone, PyBool(TRUE), PyBool(FALSE), PyInt(0),
                      PyStr(S_no), PyStr(S_empty)} }

\* normalized observations a DataFrame of load_metrics may hold
ObsAlphabet ==
    { Obs(S_psk, S_generalist, S_none, TRUE),
      Obs(S_psk, S_generalist, S_none, FALSE),
      Obs(S_psk, S_specialist, S_oracle, TRUE),
      Obs(S_psk, S_specialist, S_predicted, FALSE),
      Obs(S_fsk, S_generalist, S_oracle, FALSE),
      Obs(S_fsk, S_specialist, S_none, TRUE) }

\* load_metrics returns at least one record (lines 114-118)
DfInputs == UNION { [1..n -> ObsAlphabet] : n \in 1..MaxRecords }

-----------------------------------------------------------------------------
(* State machine.                                                          *)

NoPlot == [families |-> << >>, bars |-> << >>]

NothingRendered ==
    /\ summary = << >>
    /\ warned = FALSE
    /\ acc_matrix = NoPlot
    /\ deltas = NoPlot
    /\ callouts = << >>
    /\ table = << >>
    /\ written = {}

\* main() is entered: the arguments and the matching files are the input
Init ==
    /\ pc = "start"
    /\ routing_mode \in RoutingArgs
    /\ npaths \in 0..MaxFiles
    /\ fidx = 0
    /\ nread = 0
    /\ line = NoLine
    /\ records = << >>
    /\ df = << >>
    /\ NothingRendered

\* lines 76-78: glob; SystemExit when no file matches
LoadGlob ==
    /\ pc = "start"
    /\ IF npaths = 0
       THEN pc' = "fatal" /\ fidx' = fidx
       ELSE pc' = "loading" /\ fidx' = 1
    /\ UNCHANGED <<routing_mode, npaths, nread, line, records, df, summary,
                   warned, acc_matrix, deltas, callouts, table, written>>

\* line 83: the next line of the current file
ReadLine ==
    /\ pc = "loading"
    /\ nread < MaxLines
    /\ \E l \in LogLines : line' = l
    /\ nread' = nread + 1
    /\ pc' = "line"
    /\ UNCHANGED <<routing_mode, npaths, fidx, records, df, summary, warned,
                   acc_matrix, deltas, callouts, table, written>>

\* lines 84-112: the body of the loop; an AttributeError is not caught
ProcessLine ==
    /\ pc = "line"
    /\ IF Raises(line)
       THEN pc' = "crashed" /\ records' = records
       ELSE pc' = "loading" /\ records' = records \o Normalized(line)
    /\ UNCHANGED <<routing_mode, npaths, fidx, nread, line, df, summary,
                   warned, acc_matrix, deltas, callouts, table, written>>

\* lines 81-83: the current file is exhausted and another follows
NextFile ==
    /\ pc = "loading"
    /\ fidx < npaths
    /\ fidx' = fidx + 1
    /\ UNCHANGED <<pc, routing_mode, npaths, nread, line, records, df,
                   summary, warned, acc_matrix, deltas, callouts, table,
                   written>>

\* a return that does not check for an empty list of records
LoadReturnUnchecked ==
    /\ pc = "loading"
    /\ fidx = npaths
    /\ pc' = "loaded"
    /\ df' = records
    /\ line' = NoLine
    /\ UNCHANGED <<routing_mode, npaths, fidx, nread, records, summary,
                   warned, acc_matrix, deltas, callouts, table, written>>

\* lines 114-121: the last file is exhausted; SystemExit when no record
LoadReturn ==
    /\ pc = "loading"
    /\ fidx = npaths
    /\ IF records = << >>
       THEN pc' = "fatal" /\ df' = df
       ELSE pc' = "loaded" /\ df' = records
    /\ line' = NoLine
    /\ UNCHANGED <<routing_mode, npaths, fidx, nread, records, summary,
                   warned, acc_matrix, deltas, callouts, table, written>>

\* line 324
Main_summarize ==
    /\ pc = "loaded"
    /\ summary' = summarize(df, routing_mode)
    /\ warned' = Warns(df, routing_mode)
    /\ pc' = "summarized"
    /\ UNCHANGED <<routing_mode, npaths, fidx, nread, line, records, df,
                   acc_matrix, deltas, callouts, table, written>>

\* line 332
Main_plot_specialization_gain ==
    /\ pc = "summarized"
    /\ acc_matrix' = plot_specialization_gain(summary)
    /\ written' = written \cup {"specialization_gain_vs_generalist.pdf"}
    /\ pc' = "plotted_gain"
    /\ UNCHANGED <<routing_mode, npaths, fidx, nread, line, records, df,
                   summary, warned, deltas, callouts, table>>

\* line 333
Main_plot_family_delta ==
    /\ pc = "plotted_gain"
    /\ deltas' = plot_family_delta(summary)
    /\ written' = written \cup {"family_confusion_deltas.pdf"}
    /\ pc' = "plotted_delta"
    /\ UNCHANGED <<routing_mode, npaths, fidx, nread, line, records, df,
                   summary, warned, acc_matrix, callouts, table>>

\* line 336
Main_write_callouts_tex ==
    /\ pc = "plotted_delta"
    /\ callouts' = write_callouts_tex(summary)
    /\ written' = written \cup {"specialization_callouts.tex"}
    /\ pc' = "wrote_callouts"
    /\ UNCHANGED <<routing_mode, npaths, fidx, nread, line, records, df,
                   summary, warned, acc_matrix, deltas, table>>

\* line 337, after which main returns
Main_write_table_tex ==
    /\ pc = "wrote_callouts"
    /\ table' = write_table_tex(summary)
    /\ written' = written \cup {"specialization_table.tex"}
    /\ pc' = "done"
    /\ UNCHANGED <<routing_mode, npaths, fidx, nread, line, records, df,
                   summary, warned, acc_matrix, deltas, callouts>>

Render ==
    \/ Main_summarize
    \/ Main_plot_specialization_gain
    \/ Main_plot_family_delta
    \/ Main_write_callouts_tex
    \/ Main_write_table_tex

Next ==
    \/ LoadGlob
    \/ ReadLine
    \/ ProcessLine
    \/ NextFile
    \/ LoadReturn
    \/ Render

\* one run of main()
Spec == Init /\ [][Next]_vars

\* the loop body of load_metrics applied to one line of the first file
InitNormalize ==
    /\ pc = "line"
    /\ routing_mode = S_empty
    /\ npaths = 1
    /\ fidx = 1
    /\ nread = 1
    /\ line \in AllLines
    /\ records = << >>
    /\ df = << >>
    /\ NothingRendered
SpecNormalize == InitNormalize /\ [][ProcessLine]_vars

\* summarize and the renderers applied to the DataFrame load_metrics returned
InitSummarize ==
    /\ pc = "loaded"
    /\ routing_mode \in RoutingArgs
    /\ npaths = 1
    /\ fidx = 1
    /\ nread = 0
    /\ line = NoLine
    /\ df \in DfInputs
    /\ records = df
    /\ NothingRendered
SpecSummarize == InitSummarize /\ [][Render]_vars

-----------------------------------------------------------------------------
(* Vocabulary of the properties.                                           *)

\* summarize has returned
Summarized ==
    pc \in {"summarized", "plotted_gain", "plotted_delta", "wrote_callouts",
            "done"}

\* the observations whose routing_mode equals the filter up to case
Matching ==
    {i \in DOMAIN df : Lower(df[i].routing_mode) = Lower(routing_mode)}
\* the observations that survive the routing filter
Surviving ==
    IF routing_mode # << >> /\ Matching # {} THEN Matching ELSE DOMAIN df

RowKey(r) == <<r.family, r.model_role, r.routing_mode>>
InGroup(k) == {i \in Surviving : KeyOf(df[i]) = k}
CorrectInGroup(k) == {i \in InGroup(k) : df[i].correct}

RECURSIVE SumN(_)
SumN(rows) == IF rows = << >> THEN 0 ELSE Head(rows).n + SumN(Tail(rows))

-----------------------------------------------------------------------------
\* C1: the rows of summarize partition the surviving observations: every
\* surviving observation is counted in exactly one row, that of its
\* (family, model_role, routing_mode) key, each row counts exactly the
\* observations of its key, the n add up to the number of surviving
\* observations, and no two rows share a key.
C1_RowsPartitionSurvivors ==
    Summarized =>
        /\ SumN(summary) = Cardinality(Surviving)
        /\ \A i \in Surviving :
              Cardinality({j \in DOMAIN summary :
                              RowKey(summary[j]) = KeyOf(df[i])}) = 1
        /\ \A j \in DOMAIN summary :
              /\ summary[j].n = Cardinality(InGroup(RowKey(summary[j])))
              /\ InGroup(RowKey(summary[j])) # {}
        /\ \A j, k \in DOMAIN summary :
              RowKey(summary[j]) = RowKey(summary[k]) => j = k

\* a filter that dropped observations, several rows, one of them of two
\* observations
C1_Witness ==
    /\ Summarized
    /\ Cardinality(Surviving) < Len(df)
    /\ Len(summary) >= 2
    /\ \E j \in DOMAIN summary : summary[j].n >= 2

\* C2: every row has n >= 1 and accuracy = (observations of the group with
\* correct = true) / n, so 0 <= accuracy <= 1; the observations
\* (psk, generalist, none, true) and (psk, generalist, none, false) alone
\* give the single row (psk, generalist, none) with n = 2, accuracy = 1/2.
C2_AccuracyIsFractionCorrect ==
    Summarized =>
        /\ \A j \in DOMAIN summary :
              LET r == summary[j]
              IN /\ r.n >= 1
                 /\ r.accuracy.den > 0
                 /\ r.accuracy.num * r.n
                      = Cardinality(CorrectInGroup(RowKey(r))) * r.accuracy.den
                 /\ 0 <= r.accuracy.num
                 /\ r.accuracy.num <= r.accuracy.den
        /\ ( /\ Len(df) = 2
             /\ {df[1], df[2]} = {Obs(S_psk, S_generalist, S_none, TRUE),
                                  Obs(S_psk, S_generalist, S_none, FALSE)} )
           => /\ Len(summary) = 1
              /\ RowKey(summary[1]) = <<S_psk, S_generalist, S_none>>
              /\ summary[1].n = 2
              /\ summary[1].accuracy.num * 2 = summary[1].accuracy.den

\* the example of the claim
C2_Witness ==
    /\ Summarized
    /\ df = << Obs(S_psk, S_generalist, S_none, TRUE),
               Obs(S_psk, S_generalist, S_none, FALSE) >>
    /\ Len(summary) = 1
    /\ summary[1].n = 2

\* C3: with a non-empty filter that some observation matches up to case,
\* the aggregate is over exactly the matching observations and every row
\* carries that routing mode; with a non-empty filter that nothing matches,
\* the warning is printed and the aggregate is over all observations, never
\* empty; with the empty filter all observations are aggregated.
C3_FilterOrFallBack ==
    Summarized =>
        LET over(I) ==
            /\ \A j \in DOMAIN summary :
                  summary[j].n
                    = Cardinality({i \in I : KeyOf(df[i]) = RowKey(summary[j])})
            /\ \A i \in I : \E j \in DOMAIN summary :
                  RowKey(summary[j]) = KeyOf(df[i])
            /\ SumN(summary) = Cardinality(I)
        IN /\ (routing_mode # << >> /\ Matching # {}) =>
                 /\ over(Matching)
                 /\ \A j \in DOMAIN summary :
                       Lower(summary[j].routing_mode) = Lower(routing_mode)
                 /\ ~warned
           /\ (routing_mode # << >> /\ Matching = {}) =>
                 /\ warned
                 /\ over(DOMAIN df)
                 /\ summary # << >>
           /\ routing_mode = << >> => over(DOMAIN df) /\ ~warned

\* the filter "Oracle" kept the oracle observations and dropped another
C3_Witness ==
    /\ Summarized
    /\ routing_mode = S_Oracle
    /\ Matching # {}
    /\ Matching # DOMAIN df
    /\ SumN(summary) = Cardinality(Matching)

-----------------------------------------------------------------------------
(* Vocabulary of the properties on the rendered artifacts.                 *)

KnownFamilies == {S_psk, S_qam, S_analog}
PrefixOf(fam) ==
    CASE fam = S_psk -> "PSK"
      [] fam = S_qam -> "QAM"
      [] fam = S_analog -> "Analog"
      [] OTHER -> "?"

HasRow(fam, role) ==
    \E j \in DOMAIN summary :
        summary[j].family = fam /\ summary[j].model_role = role
HasBothRoles(fam) == HasRow(fam, S_generalist) /\ HasRow(fam, S_specialist)
Qualifies(fam) == fam \in KnownFamilies /\ HasBothRoles(fam)
SummaryFamilies == {summary[j].family : j \in DOMAIN summary}

\* the lines of the callouts file that define \<prefix><name>
MacroLines(prefix, name) ==
    {i \in DOMAIN callouts :
        callouts[i].prefix = prefix /\ callouts[i].name = name}
MacroValue(prefix, name) ==
    callouts[CHOOSE i \in MacroLines(prefix, name) : TRUE].value

\* the first row of the summary for (fam, role), in summary order
FirstIdx(fam, role) ==
    CHOOSE j \in DOMAIN summary :
        /\ summary[j].family = fam /\ summary[j].model_role = role
        /\ \A k \in 1..(j - 1) :
              ~(summary[k].family = fam /\ summary[k].model_role = role)
\* the accuracy of the observations of that row's group alone
FirstAcc(fam, role) ==
    LET k == RowKey(summary[FirstIdx(fam, role)])
    IN [num |-> Cardinality(CorrectInGroup(k)),
        den |-> Cardinality(InGroup(k))]
\* the accuracy of all surviving observations of (fam, role), whatever
\* their routing mode
PooledAcc(fam, role) ==
    LET I == {i \in Surviving :
                 df[i].family = fam /\ df[i].model_role = role}
    IN [num |-> Cardinality({i \in I : df[i].correct}),
        den |-> Cardinality(I)]

\* the position of a family on the x axis of a chart
BarIdx(plot, fam) ==
    CHOOSE i \in DOMAIN plot.families : plot.families[i] = fam

\* v (in tenths) is num/den rounded to the nearest tenth
RoundsTo(v, num, den) ==
    /\ 2 * (10 * num - v * den) <= den
    /\ 2 * (v * den - 10 * num) <= den

-----------------------------------------------------------------------------
-----------------------------------------------------------------------------
-----------------------------------------------------------------------------
AllArtifacts ==
    {"specialization_gain_vs_generalist.pdf", "family_confusion_deltas.pdf",
     "specialization_callouts.tex", "specialization_table.tex"}

\* C10: the renderers run only after load_metrics returned at least one
\* observation, the summary they are given has at least one row whatever
\* the routing filter, and a run that stops in load_metrics has written no
\* artifact.
C10_RenderersGetRows ==
    /\ (pc = "loaded" \/ Summarized) => df # << >>
    /\ Summarized => summary # << >>
    /\ written # {} => Summarized /\ df # << >> /\ summary # << >>
    /\ pc \in {"start", "loading", "line", "fatal", "crashed"} =>
          written = {} /\ NothingRendered

\* a complete run whose filter matched nothing
C10_Witness ==
    /\ pc = "done"
    /\ warned
    /\ Matching = {}
    /\ nread > Len(df)
    /\ written = AllArtifacts

\* C4 as claimed: the run stops without its artifacts only when no file
\* matched or no usable record was read; any other line is skipped, and the
\* run then completes with all four artifacts.
C4_StopsOnlyWhenNothingToAnalyze ==
    /\ pc \in {"fatal", "crashed"} => (npaths = 0 \/ records = << >>)
    /\ pc = "done" => written = AllArtifacts

\* C5 as claimed: a record of the requested study yields exactly one
\* observation when its data has a family (family or true_family), a role
\* (model_role or role) and a correct field: family, role and routing are
\* the lowercased values of those fields, routing is "none" when it has
\* neither routing field (or only an empty one), correct is the truth value
\* of the field; it yields none otherwise, and a record of another study
\* yields none.
C5_OneObservationPerCompleteRecord ==
    pc # "line" =>
        LET d == IF line.data # Absent /\ line.data.t = "dict"
                 THEN line.data.f ELSE EmptyDict.f
            has(k) == d[k] \notin {Absent, PyNone}
            cand(a, b) ==
                {Lower(Str(d[k])) : k \in {x \in {a, b} : has(x)}}
        IN IF /\ line.kind = "object"
              /\ line.study = PyStr(study)
              /\ has("family") \/ has("true_family")
              /\ has("model_role") \/ has("role")
              /\ has("correct")
           THEN /\ Len(records) = 1
                /\ records[1].family \in cand("family", "true_family")
                /\ records[1].model_role \in cand("model_role", "role")
                /\ \/ records[1].routing_mode
                        \in cand("routing_mode", "routing")
                   \/ /\ cand("routing_mode", "routing") \subseteq {S_empty}
                      /\ records[1].routing_mode = S_none
                /\ records[1].correct = Truthy(d["correct"])
           ELSE records = << >>

====
